---------------------------- MODULE Spec2Model ----------------------------
(***************************************************************************)
(* Model of the Gemini explicit-cache registry                             *)
(* (backend/core/services/geminiCache.py, GeminiCacheService) and of the   *)
(* availability check of its provider collaborator                         *)
(* (backend/core/services/geminiClient.py, GeminiClient).                  *)
(*                                                                         *)
(* Conventions.                                                            *)
(*   - A Python str is a sequence of one-character strings, so that        *)
(*     concatenation, JSON escaping and lexicographic order are computed.  *)
(*   - Optional[X] is a sequence of length 0 (None) or 1 (the value).      *)
(*   - time.time() is an integer number of seconds.                        *)
(*   - SHA-256 is idealised as collision free: the digest is a record      *)
(*     wrapping the hashed string, equal exactly when the strings are.     *)
(***************************************************************************)
EXTENDS Integers, Sequences, FiniteSets, TLC

VARIABLES
    cache_name_map,   \* self._cache_name_map: hash -> <<cache_name, expires_at>>
    client,           \* gemini_client._client: None or the GenerativeModel
    now,              \* the value time.time() returns
    last,             \* the last operation: what it saw, the provider calls it made, its result
    callers           \* the coroutines awaiting get_or_create_prefix_cache, and what each got

vars == <<cache_name_map, client, now, last, callers>>

-----------------------------------------------------------------------------
(* Optional values and Python truthiness *)

None == <<>>

Some(x) == <<x>>

\* `if x:` for an Optional[str] or Optional[list]: None and empty are falsy.
Truthy(opt) == opt # None /\ opt[1] # <<>>

-----------------------------------------------------------------------------
(* Strings *)

\* The characters the model's strings are made of, in code point order.
Ascii ==
    << " ", "\"", ",", "/", ":", "A", "B", "[", "\\", "]",
       "a", "b", "c", "d", "e", "k", "l", "m", "n", "o", "s", "t", "y",
       "{", "|", "}" >>

Ord(c) == CHOOSE i \in 1..Len(Ascii) : Ascii[i] = c

\* Python's str < str: lexicographic by code point, a proper prefix is smaller.
RECURSIVE StrLess(_, _)
StrLess(a, b) ==
    IF b = <<>> THEN FALSE
    ELSE IF a = <<>> THEN TRUE
    ELSE IF Head(a) = Head(b) THEN StrLess(Tail(a), Tail(b))
    ELSE Ord(Head(a)) < Ord(Head(b))

\* Insert x into the sorted sequence s, after the elements equal to it.
RECURSIVE Insert(_, _)
Insert(x, s) ==
    IF s = <<>> THEN <<x>>
    ELSE IF StrLess(x, Head(s)) THEN <<x>> \o s
    ELSE <<Head(s)>> \o Insert(x, Tail(s))

\* sorted(list_of_str): a stable sort, duplicates kept.
RECURSIVE Sorted(_)
Sorted(s) ==
    IF s = <<>> THEN <<>>
    ELSE Insert(s[Len(s)], Sorted(SubSeq(s, 1, Len(s) - 1)))

\* sep.join(parts)
RECURSIVE Join(_, _)
Join(sep, parts) ==
    IF parts = <<>> THEN <<>>
    ELSE IF Len(parts) = 1 THEN parts[1]
    ELSE parts[1] \o sep \o Join(sep, Tail(parts))

-----------------------------------------------------------------------------
(* json.dumps *)

\* The body of a JSON string: '"' and '\' are escaped with a backslash.
RECURSIVE JsonEscape(_)
JsonEscape(s) ==
    IF s = <<>> THEN <<>>
    ELSE (IF Head(s) \in {"\"", "\\"} THEN <<"\\", Head(s)>> ELSE <<Head(s)>>)
         \o JsonEscape(Tail(s))

\* json.dumps(a_str)
JsonStr(s) == <<"\"">> \o JsonEscape(s) \o <<"\"">>

\* json.dumps(list_of_str): the list keeps its order, whatever sort_keys is.
JsonList(l) ==
    <<"[">> \o Join(<<",", " ">>, [i \in 1..Len(l) |-> JsonStr(l[i])]) \o <<"]">>

\* The keys of a dict (a function from str to str) in sorted order.
RECURSIVE SortedKeys(_)
SortedKeys(ks) ==
    IF ks = {} THEN <<>>
    ELSE LET k == CHOOSE x \in ks : \A y \in ks \ {x} : StrLess(x, y)
         IN  <<k>> \o SortedKeys(ks \ {k})

\* json.dumps(a_dict, sort_keys=True), the values being strings.
JsonDict(d) ==
    LET ks == SortedKeys(DOMAIN d)
    IN  <<"{">>
        \o Join(<<",", " ">>,
                [i \in 1..Len(ks) |-> JsonStr(ks[i]) \o <<":", " ">> \o JsonStr(d[ks[i]])])
        \o <<"}">>

-----------------------------------------------------------------------------
(* GeminiCacheService._compute_prefix_hash *)

\* hashlib.sha256(content_str.encode('utf-8')).hexdigest(), collision free.
Sha256Hex(content_str) == [sha256_of |-> content_str]

\* isinstance(tool, dict)
IsDict(tool) == tool.is_dict

\* The list built by the loop over tools: one json.dumps per dict, in the
\* order of the input list; what is not a dict is skipped.
RECURSIVE NormalizedTools(_)
NormalizedTools(tools) ==
    IF tools = <<>> THEN <<>>
    ELSE (IF IsDict(Head(tools)) THEN <<JsonDict(Head(tools).items)>> ELSE <<>>)
         \o NormalizedTools(Tail(tools))

\* The "tools:" segment.
ToolsPart(tools) ==
    <<"t", "o", "o", "l", "s", ":">> \o JsonList(NormalizedTools(tools))

\* The "docs:" segment of the documents as given.
DocsPart_Unsorted(static_docs) ==
    <<"d", "o", "c", "s", ":">> \o JsonList(static_docs)

\* The "docs:" segment of the set of the documents: duplicates are dropped.
DocsPart_Deduplicated(static_docs) ==
    <<"d", "o", "c", "s", ":">>
    \o JsonList(SortedKeys({static_docs[i] : i \in DOMAIN static_docs}))

\* The "docs:" segment.
DocsPart(static_docs) ==
    <<"d", "o", "c", "s", ":">> \o JsonList(Sorted(static_docs))

\* The "system:" segment.
SystemPart(system_instruction) ==
    <<"s", "y", "s", "t", "e", "m", ":">> \o system_instruction

\* content_parts, as the three `if` statements extend it.
ContentParts(model, system_instruction, tools, static_docs) ==
    <<model>>
    \o (IF Truthy(system_instruction) THEN <<SystemPart(system_instruction[1])>> ELSE <<>>)
    \o (IF Truthy(tools) THEN <<ToolsPart(tools[1])>> ELSE <<>>)
    \o (IF Truthy(static_docs) THEN <<DocsPart(static_docs[1])>> ELSE <<>>)

\* content_str = "|".join(content_parts)
ContentStr(model, system_instruction, tools, static_docs) ==
    Join(<<"|">>, ContentParts(model, system_instruction, tools, static_docs))

ComputePrefixHash(model, system_instruction, tools, static_docs) ==
    Sha256Hex(ContentStr(model, system_instruction, tools, static_docs))

-----------------------------------------------------------------------------
(* GeminiCacheService: policy constants and registry helpers *)

DefaultTtl == 86400

CacheExpiryBuffer == 300

\* _is_cache_valid with the comparison turned around.
IsCacheValid_Inverted(map, cache_key, t) ==
    /\ cache_key \in DOMAIN map
    /\ t > map[cache_key][2]

\* _is_cache_valid with the instant of expiry still counted as valid.
IsCacheValid_Inclusive(map, cache_key, t) ==
    /\ cache_key \in DOMAIN map
    /\ t <= map[cache_key][2]

\* _is_cache_valid, the registry and time.time() passed in.
IsCacheValid(map, cache_key, t) ==
    /\ cache_key \in DOMAIN map
    /\ t < map[cache_key][2]

\* _get_cached_name
GetCachedName(map, cache_key, t) ==
    IF IsCacheValid(map, cache_key, t) THEN Some(map[cache_key][1]) ELSE None

\* expires_at without the expiry buffer.
ExpiresAt_NoBuffer(t, ttl_seconds) == t + ttl_seconds

\* expires_at with the expiry buffer added instead of subtracted.
ExpiresAt_BufferAdded(t, ttl_seconds) == t + ttl_seconds + CacheExpiryBuffer

\* expires_at of _store_cache_name
ExpiresAt(t, ttl_seconds) == t + ttl_seconds - CacheExpiryBuffer

\* _store_cache_name that also drops the other entries already expired.
StoreCacheName_EvictsExpired(map, cache_key, cache_name, ttl_seconds, t) ==
    [k \in {x \in DOMAIN map : t < map[x][2]} \cup {cache_key} |->
        IF k = cache_key THEN <<cache_name, ExpiresAt(t, ttl_seconds)>> ELSE map[k]]

\* _store_cache_name that stores the display name given to the provider
\* instead of the name the provider returned.
StoreCacheName_StoresDisplayName(map, cache_key, cache_name, ttl_seconds, t) ==
    [k \in DOMAIN map \cup {cache_key} |->
        IF k = cache_key THEN <<"prefix-cache", ExpiresAt(t, ttl_seconds)>>
        ELSE map[k]]

\* _store_cache_name: insert or overwrite the entry of cache_key.
StoreCacheName(map, cache_key, cache_name, ttl_seconds, t) ==
    [k \in DOMAIN map \cup {cache_key} |->
        IF k = cache_key THEN <<cache_name, ExpiresAt(t, ttl_seconds)>> ELSE map[k]]

\* `if ttl_seconds is None: ttl_seconds = self._default_ttl`
ResolveTtl(ttl_seconds) ==
    IF ttl_seconds = None THEN DefaultTtl ELSE ttl_seconds[1]

\* `if cached_name:` for an Optional[str] whose value is a provider name.
NameTruthy(cached_name) == cached_name # None /\ cached_name[1] # ""

\* is_available that does not look at _client.
IsAvailable_Always(c) == TRUE

\* GeminiClient.is_available
IsAvailable(c) == c # None

-----------------------------------------------------------------------------
(* The inputs the operations are called with *)

\* Two tool schemas, {"n": "a"} and {"n": "b"}.
ToolA == [is_dict |-> TRUE, items |-> (<<"n">> :> <<"a">>)]

ToolB == [is_dict |-> TRUE, items |-> (<<"n">> :> <<"b">>)]

\* The prefixes requested: a bare model, a full prefix, and the full prefix
\* with its documents in another order.
ReqPlain ==
    [model |-> <<"m">>, system_instruction |-> None, tools |-> None,
     static_docs |-> None]

ReqFull ==
    [model |-> <<"m">>, system_instruction |-> Some(<<"s">>),
     tools |-> Some(<<ToolA, ToolB>>), static_docs |-> Some(<<<<"d">>, <<"c">>>>)]

ReqDocsPermuted == [ReqFull EXCEPT !.static_docs = Some(<<<<"c">>, <<"d">>>>)]

Requests == {ReqPlain, ReqFull, ReqDocsPermuted}

\* The payload passed as `contents`: it goes to the provider and nowhere else.
Contents == {"c1"}

\* ttl_seconds: not given, above the buffer, equal to the buffer.
TtlInputs == {None, Some(400), Some(300)}

\* The names the provider gives the caches it creates.
CacheNames == {"cachedContents/1", "cachedContents/2"}

\* The instants the clock is read at, in seconds after the service started:
\* around the start, and where a default-TTL record stored at 0 expires.
Instants == {0, 50, 100, 150, DefaultTtl - CacheExpiryBuffer}

\* What a provider call does: it returns, or it raises.
Outcomes == {"ok", "error"}

\* The cache key of each request, computed once.
KeyTable ==
    [req \in Requests |->
        ComputePrefixHash(req.model, req.system_instruction, req.tools,
                          req.static_docs)]

KeyOf(req) == KeyTable[req]

\* A cache key that takes in the payload as well.
CacheKey_WithContents(req, contents, ttl_in) ==
    [sha256_of |-> KeyOf(req).sha256_of, contents |-> contents]

\* `cache_key = self._compute_prefix_hash(model, system_instruction, tools,
\* static_docs)`: of the arguments of get_or_create_prefix_cache, contents and
\* ttl_seconds are not passed on.
CacheKey(req, contents, ttl_in) == KeyOf(req)

-----------------------------------------------------------------------------
(* The state machine *)

Init ==
    /\ cache_name_map = <<>>
    /\ client \in {None, Some("GenerativeModel")}
    /\ now = 0
    /\ last = [op |-> "init"]
    /\ callers = <<>>

\* GeminiClient._initialize_client: without an API key, or when configuring
\* raises, _client is None; otherwise it is the model instance.
InitializeClient ==
    /\ client' \in {None, Some("GenerativeModel")}
    /\ UNCHANGED <<cache_name_map, now, last, callers>>

\* Time passes between two operations.
Tick ==
    /\ \E t \in Instants : t > now /\ now' = t
    /\ UNCHANGED <<cache_name_map, client, last, callers>>

\* A hit that stores the record again, with a new expires_at.
RegistryAfterHit_Refreshed(map, cache_key, ttl_seconds, t) ==
    StoreCacheName(map, cache_key, map[cache_key][1], ttl_seconds, t)

\* The registry after `if cached_name: ... return cached_name`: the hit
\* returns before any store.
RegistryAfterHit(map, cache_key, ttl_seconds, t) == map

\* The create failure let through to the caller.
CreateFailedResult_Raises == [kind |-> "raise", value |-> None]

\* What get_or_create_prefix_cache returns from its `except Exception` branch.
CreateFailedResult == [kind |-> "return", value |-> None]

\* get_or_create_prefix_cache(req.model, contents, req.system_instruction,
\* req.tools, req.static_docs, ttl_in). The provider's part of a create call
\* is drawn where the call is made: whether it returns or raises, the name it
\* gives, the instant the call returns at and the instant created_at, between
\* the call and its return, the provider starts the TTL of the object at (the
\* config asks for a TTL of ttl_seconds). `last` keeps what the call saw, the
\* provider calls it made, what it returned and, for an object created, the
\* TTL asked for and the two instants. The coroutine has no await: it runs
\* from its first line to its return as one step of the event loop.
GetOrCreatePrefixCache(req, contents, ttl_in) ==
    IF ~IsAvailable(client)
    THEN /\ last' = [op |-> "get_or_create_prefix_cache", available |-> FALSE,
                     create_calls |-> 0,
                     result |-> [kind |-> "return", value |-> None]]
         /\ UNCHANGED <<cache_name_map, client, now>>
    ELSE
    LET ttl_seconds == ResolveTtl(ttl_in)
        cache_key   == CacheKey(req, contents, ttl_in)
        cached_name == GetCachedName(cache_name_map, cache_key, now)
        seen        == [op |-> "get_or_create_prefix_cache", available |-> TRUE,
                        cache_key |-> cache_key,
                        lookup |-> IF NameTruthy(cached_name) THEN "hit"
                                   ELSE IF cache_key \in DOMAIN cache_name_map
                                        THEN "expired" ELSE "miss"]
    IN
    IF NameTruthy(cached_name)
    THEN /\ last' = seen @@ [create_calls |-> 0,
                             result |-> [kind |-> "return", value |-> cached_name]]
         /\ cache_name_map' = RegistryAfterHit(cache_name_map, cache_key,
                                               ttl_seconds, now)
         /\ UNCHANGED <<client, now>>
    ELSE
    \E outcome \in Outcomes, returned_at \in Instants :
        /\ now <= returned_at
        /\ now' = returned_at
        /\ UNCHANGED client
        /\ IF outcome = "ok"
           THEN \E cache_name \in CacheNames, created_at \in Instants :
                /\ now <= created_at
                /\ created_at <= returned_at
                /\ cache_name_map' = StoreCacheName(cache_name_map, cache_key,
                                                    cache_name, ttl_seconds, returned_at)
                /\ last' = seen @@ [create_calls |-> 1, create |-> "ok",
                                    ttl_seconds |-> ttl_seconds,
                                    created_at |-> created_at,
                                    returned_at |-> returned_at,
                                    result |-> [kind |-> "return",
                                                value |-> Some(cache_name)]]
           ELSE /\ last' = seen @@ [create_calls |-> 1, create |-> "error",
                                    result |-> CreateFailedResult]
                /\ UNCHANGED cache_name_map

\* keys_to_remove that stops at the first match.
KeysToRemove_FirstOnly(map, cache_name) ==
    LET all == {key \in DOMAIN map : map[key][1] = cache_name}
    IN  IF all = {} THEN {} ELSE {CHOOSE key \in all : TRUE}

\* keys_to_remove of invalidate_cache: the keys whose stored name is cache_name.
KeysToRemove(map, cache_name) == {key \in DOMAIN map : map[key][1] = cache_name}

\* The registry without the entries whose stored name is cache_name.
RemoveName(map, cache_name) ==
    [k \in DOMAIN map \ KeysToRemove(map, cache_name) |-> map[k]]

\* The removal done before the delete call, whatever its outcome.
InvalidatedMap_RemovesFirst(map, cache_name, outcome) == RemoveName(map, cache_name)

\* The registry invalidate_cache leaves: the delete call comes first, and when
\* it raises the removal is never reached.
InvalidatedMap(map, cache_name, outcome) ==
    IF outcome = "ok" THEN RemoveName(map, cache_name) ELSE map

\* invalidate_cache(cache_name); the provider's delete returns or raises.
InvalidateCache(cache_name, outcome) ==
    /\ cache_name_map' = InvalidatedMap(cache_name_map, cache_name, outcome)
    /\ last' = [op |-> "invalidate_cache", cache_name |-> cache_name,
                delete_calls |-> 1, delete |-> outcome,
                removed |-> IF outcome = "ok"
                            THEN KeysToRemove(cache_name_map, cache_name) ELSE {},
                result |-> [kind |-> "return", value |-> (outcome = "ok")]]
    /\ UNCHANGED <<client, now, callers>>

\* The loop of get_cache_stats over the items of the registry: counts is
\* <<valid_caches, expired_caches>>, keys the items not visited yet.
RECURSIVE CountLoop(_, _, _, _)
CountLoop(map, keys, current_time, counts) ==
    IF keys = {} THEN counts
    ELSE LET k == CHOOSE x \in keys : TRUE
         IN  CountLoop(map, keys \ {k}, current_time,
                       IF current_time < map[k][2]
                       THEN <<counts[1] + 1, counts[2]>>
                       ELSE <<counts[1], counts[2] + 1>>)

\* get_cache_stats with the two counters exchanged.
CacheStats_Exchanged(map, current_time) ==
    LET counts == CountLoop(map, DOMAIN map, current_time, <<0, 0>>)
    IN  [total_caches   |-> Cardinality(DOMAIN map),
         valid_caches   |-> counts[2],
         expired_caches |-> counts[1],
         cache_keys     |-> DOMAIN map]

\* The dict get_cache_stats returns, for the registry read at current_time.
\* cache_keys stands for the list of the dict's keys, as a set.
CacheStats(map, current_time) ==
    LET counts == CountLoop(map, DOMAIN map, current_time, <<0, 0>>)
    IN  [total_caches   |-> Cardinality(DOMAIN map),
         valid_caches   |-> counts[1],
         expired_caches |-> counts[2],
         cache_keys     |-> DOMAIN map]

GetCacheStats ==
    /\ last' = [op |-> "get_cache_stats",
                result |-> [kind |-> "return", value |-> CacheStats(cache_name_map, now)]]
    /\ UNCHANGED <<cache_name_map, client, now, callers>>

\* log_cache_stats: the totals line, and the keys line when a record is valid.
LogCacheStats ==
    /\ LET stats == CacheStats(cache_name_map, now)
       IN  last' = [op |-> "log_cache_stats",
                    logged |-> [total |-> stats.total_caches,
                                valid |-> stats.valid_caches,
                                expired |-> stats.expired_caches,
                                keys_line |-> stats.valid_caches > 0],
                    result |-> [kind |-> "return", value |-> None]]
    /\ UNCHANGED <<cache_name_map, client, now, callers>>

Next ==
    \/ InitializeClient
    \/ Tick
    \/ \E req \in Requests, contents \in Contents, ttl_in \in TtlInputs :
            GetOrCreatePrefixCache(req, contents, ttl_in) /\ UNCHANGED callers
    \/ \E cache_name \in CacheNames, outcome \in Outcomes :
            InvalidateCache(cache_name, outcome)
    \/ GetCacheStats
    \/ LogCacheStats

Spec == Init /\ [][Next]_vars

-----------------------------------------------------------------------------
(* _compute_prefix_hash on its own: the fingerprint of every input drawn    *)
(* from bounded sets                                                        *)

MaxTools == 2

MaxDocs == 3

\* A tool that is not a dict: the loop skips it.
NotADict == [is_dict |-> FALSE, items |-> <<>>]

\* A schema with two fields, {"n": "a", "k": "b"}.
ToolTwoFields ==
    [is_dict |-> TRUE, items |-> (<<"n">> :> <<"a">>) @@ (<<"k">> :> <<"b">>)]

\* The model name "m|system:s": it holds the delimiter and the system tag.
ModelWithDelimiter == <<"m", "|", "s", "y", "s", "t", "e", "m", ":", "s">>

HashModels == {<<"m">>, ModelWithDelimiter}

HashSystemInstructions == {None, Some(<<>>), Some(<<"s">>)}

HashToolChoices == {ToolA, ToolB, ToolTwoFields, NotADict}

HashDocChoices == {<<"c">>, <<"d">>, <<"c", "d">>}

\* The lists over S of length at most n.
ListsUpTo(S, n) == UNION {[1..k -> S] : k \in 0..n}

\* Optional[List]: None, or a list (the empty one included).
OptionalLists(S, n) == {None} \cup {Some(l) : l \in ListsUpTo(S, n)}

\* The reorderings of the list l.
Reorderings(l) ==
    {[i \in 1..Len(l) |-> l[p[i]]] : p \in Permutations(1..Len(l))}

\* The calls of _compute_prefix_hash that are checked: `last` holds the
\* arguments of a call that has not run yet.
HashInit ==
    /\ cache_name_map = <<>>
    /\ client = None
    /\ now = 0
    /\ callers = <<>>
    /\ \E model \in HashModels, system_instruction \in HashSystemInstructions,
          tools \in OptionalLists(HashToolChoices, MaxTools),
          static_docs \in OptionalLists(HashDocChoices, MaxDocs) :
            last = [op |-> "call", model |-> model,
                    system_instruction |-> system_instruction, tools |-> tools,
                    static_docs |-> static_docs]

\* The call runs; `last` keeps its arguments, the string it hashed and the
\* digest it returned.
ComputePrefixHashCall ==
    /\ last.op = "call"
    /\ last' = [last EXCEPT !.op = "_compute_prefix_hash"]
               @@ [content_str |-> ContentStr(last.model, last.system_instruction,
                                              last.tools, last.static_docs),
                   result |-> ComputePrefixHash(last.model, last.system_instruction,
                                                last.tools, last.static_docs)]
    /\ UNCHANGED <<cache_name_map, client, now, callers>>

HashNext == ComputePrefixHashCall

HashSpec == HashInit /\ [][HashNext]_vars

-----------------------------------------------------------------------------
(* Claims about the registry, checked under Spec *)

\* A step of get_or_create_prefix_cache, whatever its arguments.
GetOrCreateStep(req) ==
    \E contents \in Contents, ttl_in \in TtlInputs :
        GetOrCreatePrefixCache(req, contents, ttl_in)

\* C1: with the provider available and create succeeding, a call for a
\* fingerprint that has no record issues exactly one create call and stores a
\* record holding the name it returns; a call for a fingerprint whose record
\* has current time strictly before its expires_at issues no provider call,
\* returns the name stored in that record, and leaves the registry as it is.
C1_CreateOnceThenHit ==
    [][\A req \in Requests :
        (client # None /\ GetOrCreateStep(req)) =>
            LET key == KeyOf(req)
            IN  /\ (key \notin DOMAIN cache_name_map /\ last'.create = "ok") =>
                        /\ last'.create_calls = 1
                        /\ key \in DOMAIN cache_name_map'
                        /\ last'.result = [kind |-> "return",
                                           value |-> Some(cache_name_map'[key][1])]
                /\ (key \in DOMAIN cache_name_map /\ now < cache_name_map[key][2]) =>
                        /\ last'.create_calls = 0
                        /\ last'.result = [kind |-> "return",
                                           value |-> Some(cache_name_map[key][1])]
                        /\ cache_name_map' = cache_name_map
      ]_vars

\* A call has just been served from a stored record, without a provider call.
C1_Witness ==
    /\ last.op = "get_or_create_prefix_cache"
    /\ last.available
    /\ last.lookup = "hit"
    /\ last.create_calls = 0
    /\ last.cache_key \in DOMAIN cache_name_map
    /\ last.result.value = Some(cache_name_map[last.cache_key][1])

\* C2: when is_available() is false (_client is None), get_or_create_prefix_cache
\* returns None, makes no provider call and leaves the registry unchanged,
\* whatever the arguments and whatever the registry holds.
C2_UnavailableReturnsNone ==
    [][\A req \in Requests :
        (client = None /\ GetOrCreateStep(req)) =>
            /\ last'.result = [kind |-> "return", value |-> None]
            /\ last'.create_calls = 0
            /\ cache_name_map' = cache_name_map
      ]_vars

\* The call was refused for unavailability while every requested fingerprint
\* had a valid record.
C2_Witness ==
    /\ last.op = "get_or_create_prefix_cache"
    /\ ~last.available
    /\ last.result.value = None
    /\ \A req \in Requests : IsCacheValid(cache_name_map, KeyOf(req), now)

\* C3: provider available, no valid record for the fingerprint (none, or an
\* expired one), and the create call raises: the call returns None, does not
\* raise, and the registry is what it was.
C3_CreateFailureReturnsNone ==
    [][\A req \in Requests :
        (/\ client # None
         /\ ~(/\ KeyOf(req) \in DOMAIN cache_name_map
              /\ now < cache_name_map[KeyOf(req)][2])
         /\ GetOrCreateStep(req)
         /\ last'.create = "error") =>
            /\ last'.result = [kind |-> "return", value |-> None]
            /\ cache_name_map' = cache_name_map
      ]_vars

\* A create call failed for a fingerprint whose expired record is still there.
C3_Witness ==
    /\ last.op = "get_or_create_prefix_cache"
    /\ last.available
    /\ last.lookup = "expired"
    /\ last.create = "error"
    /\ last.result.value = None
    /\ last.cache_key \in DOMAIN cache_name_map

\* C4: after invalidate_cache(name) with a successful delete, no record holds
\* the name, the call returned True, and the keys that held it are neither in
\* the registry nor among the cache_keys of get_cache_stats. A key without a
\* record stays without one until a get_or_create_prefix_cache call for it,
\* and that call (provider available) finds no record and issues a provider
\* create call.
C4_InvalidateForgetsName ==
    [][/\ \A cache_name \in CacheNames :
            InvalidateCache(cache_name, "ok") =>
                /\ last'.result = [kind |-> "return", value |-> TRUE]
                /\ \A k \in DOMAIN cache_name_map' :
                        cache_name_map'[k][1] # cache_name
                /\ \A k \in DOMAIN cache_name_map :
                        cache_name_map[k][1] = cache_name =>
                            /\ k \notin DOMAIN cache_name_map'
                            /\ k \notin CacheStats(cache_name_map', now').cache_keys
                            /\ GetCachedName(cache_name_map', k, now') = None
       /\ \A k \in DOMAIN cache_name_map' \ DOMAIN cache_name_map :
            \E req \in Requests :
                /\ KeyOf(req) = k
                /\ GetOrCreateStep(req)
                /\ last'.create_calls = 1
       /\ \A req \in Requests :
            (/\ client # None
             /\ KeyOf(req) \notin DOMAIN cache_name_map
             /\ GetOrCreateStep(req)) =>
                /\ last'.lookup = "miss"
                /\ last'.create_calls = 1
      ]_vars

\* A successful invalidation has just removed the two records that shared
\* the name.
C4_Witness ==
    /\ last.op = "invalidate_cache"
    /\ last.delete = "ok"
    /\ last.result.value = TRUE
    /\ Cardinality(last.removed) = 2
    /\ last.removed \cap DOMAIN cache_name_map = {}

\* C5: when the provider's delete raises, invalidate_cache returns False, does
\* not raise, and every record, those holding the name included, stays as it
\* was.
C5_FailedInvalidateKeepsRegistry ==
    [][\A cache_name \in CacheNames :
        InvalidateCache(cache_name, "error") =>
            /\ last'.result = [kind |-> "return", value |-> FALSE]
            /\ cache_name_map' = cache_name_map
      ]_vars

\* A delete has just failed for a name that two records hold.
C5_Witness ==
    /\ last.op = "invalidate_cache"
    /\ last.delete = "error"
    /\ last.result.value = FALSE
    /\ Cardinality(KeysToRemove(cache_name_map, last.cache_name)) = 2

\* C6: a record stored by a successful call whose store reads the clock at t
\* gets expires_at = t + T - 300, T being ttl_seconds or 86400 when it is not
\* given; and a call treats the record of its fingerprint as valid exactly
\* when the record is present and current time is strictly before expires_at.
C6_ExpiryArithmetic ==
    [][\A req \in Requests, contents \in Contents, ttl_in \in TtlInputs :
        (client # None /\ GetOrCreatePrefixCache(req, contents, ttl_in)) =>
            LET key == KeyOf(req)
                T   == IF ttl_in = None THEN 86400 ELSE ttl_in[1]
            IN  /\ (last'.lookup = "hit") <=>
                        (/\ key \in DOMAIN cache_name_map
                         /\ now < cache_name_map[key][2])
                /\ (last'.create_calls = 1 /\ last'.create = "ok") =>
                        cache_name_map'[key][2] = now' + T - 300
      ]_vars

\* The record stored at 0 with ttl_seconds=400 (expires_at = 100) has just
\* been served at 50.
C6_Witness ==
    /\ last.op = "get_or_create_prefix_cache"
    /\ last.available
    /\ last.lookup = "hit"
    /\ now = 50
    /\ cache_name_map[last.cache_key][2] = 100

\* C7: a call (provider available) for a fingerprint whose record has current
\* time at or past its expires_at issues a provider create call; when that
\* call succeeds the record of that fingerprint is replaced by the returned
\* name with a new expires_at, and the registry holds the same fingerprints
\* as before, the other records untouched.
C7_ExpiredIsRecreated ==
    [][\A req \in Requests, contents \in Contents, ttl_in \in TtlInputs :
        (/\ client # None
         /\ KeyOf(req) \in DOMAIN cache_name_map
         /\ now >= cache_name_map[KeyOf(req)][2]
         /\ GetOrCreatePrefixCache(req, contents, ttl_in)) =>
            LET key == KeyOf(req)
                T   == IF ttl_in = None THEN 86400 ELSE ttl_in[1]
            IN  /\ last'.lookup = "expired"
                /\ last'.create_calls = 1
                /\ last'.create = "ok" =>
                    /\ last'.result.value # None
                    /\ cache_name_map'[key] =
                            <<last'.result.value[1], now' + T - 300>>
                    /\ DOMAIN cache_name_map' = DOMAIN cache_name_map
                    /\ \A k \in DOMAIN cache_name_map \ {key} :
                            cache_name_map'[k] = cache_name_map[k]
      ]_vars

\* An expired record has just been replaced by a record under another name
\* that is valid now, next to the record of the other fingerprint.
C7_Witness ==
    /\ last.op = "get_or_create_prefix_cache"
    /\ last.available
    /\ last.lookup = "expired"
    /\ last.create = "ok"
    /\ cache_name_map[last.cache_key][1] = last.result.value[1]
    /\ now < cache_name_map[last.cache_key][2]
    /\ Cardinality(DOMAIN cache_name_map) = 2

\* C8: get_cache_stats reports total_caches = the number of records,
\* valid_caches = the number of records with current time strictly before
\* expires_at, expired_caches = the number of the others, so that
\* total_caches = valid_caches + expired_caches, and cache_keys = all the
\* fingerprints of the registry.
C8_StatsPartition ==
    [][GetCacheStats =>
        LET stats == last'.result.value
        IN  /\ stats.total_caches = Cardinality(DOMAIN cache_name_map)
            /\ stats.valid_caches =
                   Cardinality({k \in DOMAIN cache_name_map :
                                    now < cache_name_map[k][2]})
            /\ stats.expired_caches =
                   Cardinality({k \in DOMAIN cache_name_map :
                                    now >= cache_name_map[k][2]})
            /\ stats.total_caches = stats.valid_caches + stats.expired_caches
            /\ stats.cache_keys = DOMAIN cache_name_map
      ]_vars

\* The statistics of a registry of one valid and one expired record.
C8_Witness ==
    /\ last.op = "get_cache_stats"
    /\ last.result.value.total_caches = 2
    /\ last.result.value.valid_caches = 1
    /\ last.result.value.expired_caches = 1
    /\ Cardinality(last.result.value.cache_keys) = 2

-----------------------------------------------------------------------------
(* Claims about _compute_prefix_hash, checked under HashSpec *)

\* C9: the fingerprint does not depend on the order of the tools: every
\* reordering of the list of tools gives the digest the call returned.
C9_ToolOrderIrrelevant ==
    (last.op = "_compute_prefix_hash" /\ last.tools # None) =>
        \A reordered \in Reorderings(last.tools[1]) :
            ComputePrefixHash(last.model, last.system_instruction,
                              Some(reordered), last.static_docs) = last.result

\* C10: the fingerprint does not depend on the order of the static documents:
\* every reordering of the list of documents gives the digest the call
\* returned.
C10_DocOrderIrrelevant ==
    (last.op = "_compute_prefix_hash" /\ last.static_docs # None) =>
        \A reordered \in Reorderings(last.static_docs[1]) :
            ComputePrefixHash(last.model, last.system_instruction, last.tools,
                              Some(reordered)) = last.result

\* The digest of a prefix whose three distinct documents are given out of
\* order, hashed as the sorted list.
C10_Witness ==
    /\ last.op = "_compute_prefix_hash"
    /\ last.static_docs = Some(<< <<"d">>, <<"c", "d">>, <<"c">> >>)
    /\ last.result = ComputePrefixHash(last.model, last.system_instruction,
                                       last.tools,
                                       Some(<< <<"c">>, <<"c", "d">>, <<"d">> >>))

\* The texts a system instruction is changed to.
ChangedSystemTexts == {<<>>, <<"s">>, <<"s", "|">>}

\* The tool schemas that differ from tool in one field: its value changed,
\* or its key renamed to a key the schema does not have.
OneFieldChanged(tool) ==
    LET items == tool.items
    IN  UNION {{[tool EXCEPT !.items = [items EXCEPT ![k] = v]] :
                        v \in {<<"b">>, <<"a", "\"">>} \ {items[k]}} :
                    k \in DOMAIN items}
        \cup
        {[tool EXCEPT !.items =
                [x \in (DOMAIN items \ {k}) \cup {k2} |->
                    IF x = k2 THEN items[k] ELSE items[x]]] :
            k \in DOMAIN items, k2 \in {<<"l">>} \ DOMAIN items}

\* The lists that differ from tools in one field of one schema.
OneToolChanged(tools) ==
    UNION {{[tools EXCEPT ![i] = t] : t \in OneFieldChanged(tools[i])} :
            i \in {j \in DOMAIN tools : IsDict(tools[j])}}

\* The lists that differ from static_docs in one document.
OneDocChanged(static_docs) ==
    UNION {{[static_docs EXCEPT ![i] = d] :
                d \in {<<"d">>, <<"e">>} \ {static_docs[i]}} :
            i \in DOMAIN static_docs}

\* The hashed string and the digest of these arguments both differ from
\* those of the call in `last`.
DiffersFromLast(model, system_instruction, tools, static_docs) ==
    LET content_str == ContentStr(model, system_instruction, tools, static_docs)
    IN  /\ content_str # last.content_str
        /\ Sha256Hex(content_str) # last.result

\* C11: changing the model name, or the text of a given system instruction,
\* or one field of one tool schema, or one document string, the other
\* arguments kept, changes the string that is hashed and the fingerprint.
C11_OneChangeChangesFingerprint ==
    last.op = "_compute_prefix_hash" =>
        /\ \A model \in HashModels \ {last.model} :
                DiffersFromLast(model, last.system_instruction, last.tools,
                                last.static_docs)
        /\ last.system_instruction # None =>
                \A text \in ChangedSystemTexts \ {last.system_instruction[1]} :
                    DiffersFromLast(last.model, Some(text), last.tools,
                                    last.static_docs)
        /\ last.tools # None =>
                \A tools \in OneToolChanged(last.tools[1]) :
                    DiffersFromLast(last.model, last.system_instruction,
                                    Some(tools), last.static_docs)
        /\ last.static_docs # None =>
                \A static_docs \in OneDocChanged(last.static_docs[1]) :
                    DiffersFromLast(last.model, last.system_instruction,
                                    last.tools, Some(static_docs))

\* The digest of a prefix with every section given: a system instruction, a
\* schema of two fields among the tools, a document given twice.
C11_Witness ==
    /\ last.op = "_compute_prefix_hash"
    /\ last.system_instruction = Some(<<"s">>)
    /\ last.tools = Some(<<ToolTwoFields, ToolB>>)
    /\ last.static_docs = Some(<< <<"c">>, <<"c">>, <<"d">> >>)
    /\ DiffersFromLast(last.model, last.system_instruction, last.tools,
                       Some(<< <<"d">>, <<"c">>, <<"d">> >>))

\* tools (or static_docs) a and b are both absent, or both given and equal
\* up to the order of their elements.
SameUpToOrder(a, b) ==
    \/ a = None /\ b = None
    \/ a # None /\ b # None /\ a[1] \in Reorderings(b[1])

\* System instructions a and b are the same text, or both without text.
SameInstruction(a, b) == a = b \/ (~Truthy(a) /\ ~Truthy(b))

\* C14: the hashed string is unambiguous: arguments that differ from those of
\* the call in the model, in the text of the system instruction, or in the
\* tools or the documents otherwise than by their order (an empty list given
\* for a list absent included) are never hashed as the same string.
C14_SerializationUnambiguous ==
    last.op = "_compute_prefix_hash" =>
        \A model \in HashModels,
           system_instruction \in HashSystemInstructions,
           tools \in OptionalLists(HashToolChoices, MaxTools),
           static_docs \in OptionalLists(HashDocChoices, MaxDocs) :
            (\/ model # last.model
             \/ ~SameInstruction(system_instruction, last.system_instruction)
             \/ ~SameUpToOrder(tools, last.tools)
             \/ ~SameUpToOrder(static_docs, last.static_docs)) =>
                ContentStr(model, system_instruction, tools, static_docs)
                    # last.content_str

-----------------------------------------------------------------------------
(* Further claims about the registry, checked under Spec *)

\* C13: with the provider unavailable, invalidate_cache returns False without
\* calling the provider's delete and leaves the registry as it is.
C13_UnavailableInvalidateShortCircuits ==
    [][\A cache_name \in CacheNames, outcome \in Outcomes :
        (~IsAvailable(client) /\ InvalidateCache(cache_name, outcome)) =>
            /\ last'.delete_calls = 0
            /\ last'.result = [kind |-> "return", value |-> FALSE]
            /\ cache_name_map' = cache_name_map]_vars

\* C16: a call that finds a valid record (current time strictly before its
\* expires_at) leaves the whole registry, the expires_at of that record
\* included, as it was, whatever ttl_seconds it is given; it makes no provider
\* call and takes no time.
C16_HitLeavesRegistry ==
    [][\A req \in Requests, contents \in Contents, ttl_in \in TtlInputs :
        (/\ IsAvailable(client)
         /\ IsCacheValid(cache_name_map, KeyOf(req), now)
         /\ GetOrCreatePrefixCache(req, contents, ttl_in)) =>
            /\ cache_name_map' = cache_name_map
            /\ cache_name_map'[KeyOf(req)][2] = cache_name_map[KeyOf(req)][2]
            /\ last'.lookup = "hit"
            /\ last'.create_calls = 0
            /\ now' = now]_vars

\* A hit at 50 on the record stored at 0 with a TTL of 400: it still expires
\* at 100, and another record is in the registry.
C16_Witness ==
    /\ last.op = "get_or_create_prefix_cache"
    /\ last.available
    /\ last.lookup = "hit"
    /\ now = 50
    /\ cache_name_map[last.cache_key][2] = 100
    /\ Cardinality(DOMAIN cache_name_map) = 2

\* The last operation created a remote object and stored its record.
LastCreated ==
    /\ last.op = "get_or_create_prefix_cache"
    /\ last.available
    /\ last.create_calls = 1
    /\ last.create = "ok"

\* The instant the TTL of the object created by the last operation ends at
\* the provider.
RemoteExpiresAt == last.created_at + last.ttl_seconds

\* C17 as stated: whenever the record of the object just created is valid,
\* the TTL of that object has not ended, however long the create call took.
C17_ValidImpliesRemoteAlive ==
    (LastCreated /\ IsCacheValid(cache_name_map, last.cache_key, now)) =>
        now < RemoteExpiresAt

\* C17: when the create call returned at most 300 s (the buffer) after the
\* provider started the TTL of the object, the record stored expires no later
\* than the object, and whenever the record is valid the TTL of the object
\* has not ended.
C17_ValidImpliesRemoteAliveWithinBuffer ==
    (LastCreated /\ last.returned_at - last.created_at <= CacheExpiryBuffer) =>
        /\ cache_name_map[last.cache_key][2] <= RemoteExpiresAt
        /\ IsCacheValid(cache_name_map, last.cache_key, now) =>
                now < RemoteExpiresAt

\* An object created at 0 by a call that returned at 50, asked for with a TTL
\* of 400: its record is valid at 50, and the object lives until 400.
C17_Witness ==
    /\ LastCreated
    /\ last.created_at = 0
    /\ last.returned_at = 50
    /\ last.ttl_seconds = 400
    /\ IsCacheValid(cache_name_map, last.cache_key, now)

\* C18: get_cache_stats and log_cache_stats leave the registry as it is, and
\* get_cache_stats counts every expired record as expired. A record leaves
\* the registry only in a successful invalidate_cache of its name, and
\* changes only in a get_or_create_prefix_cache for its fingerprint that
\* found it expired and whose create call succeeded.
C18_LazyEviction ==
    [][/\ GetCacheStats =>
            /\ cache_name_map' = cache_name_map
            /\ last'.result.value.expired_caches =
                    Cardinality({k \in DOMAIN cache_name_map :
                                    ~IsCacheValid(cache_name_map, k, now)})
       /\ LogCacheStats => cache_name_map' = cache_name_map
       /\ \A k \in DOMAIN cache_name_map :
            /\ k \notin DOMAIN cache_name_map' =>
                    \E cache_name \in CacheNames :
                        /\ cache_name_map[k][1] = cache_name
                        /\ InvalidateCache(cache_name, "ok")
            /\ (k \in DOMAIN cache_name_map'
                    /\ cache_name_map'[k] # cache_name_map[k]) =>
                    \E req \in Requests :
                        /\ KeyOf(req) = k
                        /\ GetOrCreateStep(req)
                        /\ ~IsCacheValid(cache_name_map, k, now)
                        /\ last'.create_calls = 1
                        /\ last'.create = "ok"]_vars

\* get_cache_stats has just counted a record that expired, and the record is
\* still in the registry, next to a valid one.
C18_Witness ==
    /\ last.op = "get_cache_stats"
    /\ last.result.value.expired_caches = 1
    /\ last.result.value.valid_caches = 1
    /\ \E k \in DOMAIN cache_name_map : now >= cache_name_map[k][2]

\* C19: the registry starts empty, and a record appears in it or changes only
\* in a get_or_create_prefix_cache for its fingerprint whose create call
\* succeeded, and then holds the name that call returned: a call that found
\* the provider unavailable, or whose create call raised, stores nothing.
C19_RecordsComeFromCreate ==
    /\ cache_name_map = <<>>
    /\ [][\A k \in DOMAIN cache_name_map' :
            (k \notin DOMAIN cache_name_map
                \/ cache_name_map'[k] # cache_name_map[k]) =>
                \E req \in Requests :
                    /\ KeyOf(req) = k
                    /\ GetOrCreateStep(req)
                    /\ last'.available
                    /\ last'.create_calls = 1
                    /\ last'.create = "ok"
                    /\ last'.result = [kind |-> "return",
                                       value |-> Some(cache_name_map'[k][1])]]_vars

\* Two records, the second just stored under the name its create returned.
C19_Witness ==
    /\ LastCreated
    /\ Cardinality(DOMAIN cache_name_map) = 2
    /\ last.result.value = Some(cache_name_map[last.cache_key][1])

-----------------------------------------------------------------------------
(* Concurrent callers of get_or_create_prefix_cache for one fingerprint      *)

NumCallers == 2

\* The payloads passed as `contents`; caller c passes CallerPayload(c), so
\* that callers next to each other pass different ones.
CallerContents == {"c1", "c2"}

CallerPayload(c) == IF c % 2 = 1 THEN "c1" ELSE "c2"

\* The ttl_seconds the callers pass: above the buffer, equal to the buffer,
\* below the buffer.
CallerTtls == {Some(400), Some(300), Some(100)}

\* The prefix each caller asks for: the same fingerprint for all of them, the
\* documents of the first in another order than those of the others.
CallerRequest(c) == IF c = 1 THEN ReqFull ELSE ReqDocsPermuted

\* The provider is available, the registry is empty, and every caller has a
\* call of get_or_create_prefix_cache scheduled on the event loop, each with
\* its own ttl_seconds.
ConcInit ==
    /\ cache_name_map = <<>>
    /\ client = Some("GenerativeModel")
    /\ now = 0
    /\ last = [op |-> "init"]
    /\ callers \in [1..NumCallers ->
                        {[pc |-> "pending", ttl_in |-> ttl_in] :
                            ttl_in \in CallerTtls}]

\* The event loop runs the coroutine of caller c: the body has no await, so
\* it runs to its return before any other coroutine does. The caller keeps
\* its place among the calls, the instant its call started at, and of what
\* the call did: its lookup, its create call and its outcome, the TTL asked
\* for, the instant the create call returned at, and the result.
AwaitGetOrCreate(c) ==
    /\ callers[c].pc = "pending"
    /\ GetOrCreatePrefixCache(CallerRequest(c), CallerPayload(c),
                              callers[c].ttl_in)
    /\ callers' = [callers EXCEPT ![c] =
            [pc |-> "done", ttl_in |-> callers[c].ttl_in,
             order |-> 1 + Cardinality({d \in DOMAIN callers :
                                            callers[d].pc = "done"}),
             at |-> now,
             did |-> [x \in DOMAIN last' \ {"op", "available", "cache_key",
                                             "created_at"} |-> last'[x]]]]

ConcNext ==
    \/ \E c \in DOMAIN callers : AwaitGetOrCreate(c)
    \/ Tick

ConcSpec == ConcInit /\ [][ConcNext]_vars

\* The callers whose call has returned.
Done == {c \in DOMAIN callers : callers[c].pc = "done"}

\* The callers whose call created an object and stored its record.
Creators ==
    {c \in Done : callers[c].did.create_calls = 1 /\ callers[c].did.create = "ok"}

\* C12 as stated: once all the concurrent calls have returned without a
\* create call failing, at most one create call was issued and all the
\* callers got the same handle.
C12_AtMostOneCreate ==
    (/\ Done = DOMAIN callers
     /\ \A c \in Done : callers[c].did.create_calls = 1 => c \in Creators) =>
        /\ Cardinality(Creators) <= 1
        /\ \A c, d \in Done : callers[c].did.result = callers[d].did.result

\* C12: the concurrent calls run one after the other. The first to run finds
\* no record and issues one create call; when it succeeds, every call that
\* starts strictly before the expires_at of the record it stored issues no
\* create call and returns the same handle.
C12_OneCreateWhileRecordValid ==
    \A c, d \in Done :
        (callers[c].order = 1) =>
            /\ callers[c].did.lookup = "miss"
            /\ callers[c].did.create_calls = 1
            /\ (/\ c \in Creators
                /\ callers[d].order > 1
                /\ callers[d].at < ExpiresAt(callers[c].did.returned_at,
                                             callers[c].did.ttl_seconds)) =>
                    /\ callers[d].did.create_calls = 0
                    /\ callers[d].did.result = callers[c].did.result

\* Both calls have returned: the first created the object, the second, with
\* another payload and another ttl_seconds, got its handle without a create.
C12_Witness ==
    /\ Done = DOMAIN callers
    /\ Cardinality(Creators) = 1
    /\ \E c \in Creators, d \in Done :
        /\ callers[d].order > callers[c].order
        /\ CallerPayload(d) # CallerPayload(c)
        /\ callers[d].ttl_in # callers[c].ttl_in
        /\ callers[d].did.lookup = "hit"
        /\ callers[d].did.result = callers[c].did.result

\* What the lookup of a call decides, from the registry and the clock.
LookupOf(cache_key) ==
    IF NameTruthy(GetCachedName(cache_name_map, cache_key, now)) THEN "hit"
    ELSE IF cache_key \in DOMAIN cache_name_map THEN "expired" ELSE "miss"

\* C15: whatever contents and ttl_seconds a call passes, it computes the
\* fingerprint of its prefix and decides hit or miss as the call with any
\* other contents and ttl_seconds would; and when it hits, that other call
\* would do the very same step: the same handle returned, no provider call,
\* the same registry.
C15_PayloadAndTtlIrrelevant ==
    [][\A c \in DOMAIN callers : AwaitGetOrCreate(c) =>
        /\ last'.cache_key = KeyOf(CallerRequest(c))
        /\ \A contents \in CallerContents, ttl_in \in CallerTtls :
            /\ LookupOf(CacheKey(CallerRequest(c), contents, ttl_in))
                    = last'.lookup
            /\ last'.lookup = "hit" =>
                    /\ GetOrCreatePrefixCache(CallerRequest(c), contents, ttl_in)
                    /\ last'.create_calls = 0
                    /\ last'.result.value = Some(cache_name_map[KeyOf(CallerRequest(c))][1])]_vars

\* A call hit the record stored by a call that passed another payload and
\* another ttl_seconds.
C15_Witness ==
    /\ Done = DOMAIN callers
    /\ \E c \in Creators, d \in Done :
        /\ callers[d].order = callers[c].order + 1
        /\ CallerPayload(d) = "c2"
        /\ CallerPayload(c) = "c1"
        /\ callers[d].ttl_in = Some(100)
        /\ callers[c].ttl_in = Some(400)
        /\ callers[d].did.lookup = "hit"
        /\ callers[d].did.create_calls = 0

\* The creator whose record is in the registry: the last one to have run.
LatestCreator == CHOOSE c \in Creators : \A d \in Creators : callers[d].order <= callers[c].order

\* C20: a record stored by a call whose ttl_seconds is 300 or less is already
\* expired when it is stored; every later call for the fingerprint finds it
\* expired, never hits it, and issues another create call, which, when it
\* succeeds, overwrites the record.
C20_ShortTtlNeverHit ==
    [][\A c \in DOMAIN callers : AwaitGetOrCreate(c) =>
        LET key == KeyOf(CallerRequest(c))
        IN  /\ (/\ last'.create_calls = 1
                /\ last'.create = "ok"
                /\ ResolveTtl(callers[c].ttl_in) <= CacheExpiryBuffer) =>
                    /\ cache_name_map'[key][2] <= now'
                    /\ ~IsCacheValid(cache_name_map', key, now')
            /\ (/\ Creators # {}
                /\ callers[LatestCreator].did.ttl_seconds <= CacheExpiryBuffer) =>
                    /\ last'.lookup = "expired"
                    /\ last'.create_calls = 1
                    /\ last'.create = "ok" =>
                        /\ last'.result.value = Some(cache_name_map'[key][1])
                        /\ cache_name_map'[key][2] =
                                ExpiresAt(now', ResolveTtl(callers[c].ttl_in))]_vars

\* Two calls with a ttl_seconds of 300 and of 100, both returned: each issued
\* a create call, and the record of the second replaced that of the first.
C20_Witness ==
    /\ Done = DOMAIN callers
    /\ Creators = DOMAIN callers
    /\ \E c, d \in Creators :
        /\ callers[c].order = 1
        /\ callers[d].order = 2
        /\ callers[c].ttl_in = Some(300)
        /\ callers[d].ttl_in = Some(100)
        /\ callers[d].did.lookup = "expired"
        /\ callers[c].did.result # callers[d].did.result
        /\ cache_name_map[KeyOf(CallerRequest(d))][1] = callers[d].did.result.value[1]

=============================================================================
